---- MODULE Spec2Model ----
(***************************************************************************)
(* A model of coin_tracker's project store (src/projects.rs) and of its    *)
(* API client / session layer (src/client.rs).                             *)
(*                                                                         *)
(* SpecStore  : the ProjectStore under arbitrary sequences of Msg values   *)
(*              applied through Projects::apply_update.                    *)
(* SpecClient : the API client; every request is issued by the UI thread   *)
(*              and completed, step by step, on a transport thread.        *)
(* SpecClientLive : SpecClient with a transport that delivers every        *)
(*              completion and threads that keep running.                  *)
(* SpecUi     : the mutation queue between its producers (the UI's own     *)
(*              widgets, ProjectsHandle::update_project on a transport     *)
(*              thread) and the drain at the top of Projects::show_ui.     *)
(***************************************************************************)
EXTENDS Integers, Sequences, FiniteSets, TLC

\* ------------------------------------------------------------------ bounds

\* Number of ids Uuid::now_v7 hands out in one run (ids 1..MaxUuid).
MaxUuid == 3

\* Number of requests issued in one run (request ids 1..MaxReq).
MaxReq == 2

\* Number of Msgs sent into the channel in one run.
MaxSent == 3

\* ------------------------------------------------------------ value domains

\* Option<T>: None is the empty tuple, Some(x) the tuple of x alone.
None == <<>>
Some(x) == <<x>>
unwrap(o) == o[1]

\* A Uuid that Uuid::now_v7 never produces in the run (a foreign id).
ForeignUuid == 0

Names == {"Unnamed", "Foo", "Bar"}

\* export::Project values; DefaultData is export::Project::default().
DefaultData == "default"
Payloads == {DefaultData, "d1"}

VARIABLES
    projects,      \* Projects.projects : Vec<Project>
    open_project,  \* Projects.open_project : Uuid
    now,           \* the time source behind Uuid::now_v7 and Utc::now
    panicked,      \* an unwrap() of the store failed: the thread is gone
    last_msg,      \* history: the Msg applied by the last step
    pre,           \* history: [projects, open_project] before that Msg
    persisted,     \* the context's persisted slot for Id::NULL: Option<Client>
    loading,       \* the Loading counter
    notifications, \* number of error notifications in the sink
    reqs,          \* the requests issued so far, by request id
    queue,         \* the channel behind Projects.sender / Projects.receiver
    window_open,   \* Projects.window_open
    ui,            \* where the UI thread is in its pass
    sent,          \* history: every Msg sent into the channel, in send order
    applied,       \* history: every Msg the drain applied, in that order
    due,           \* history: how many Msgs had been sent when the latest pass began
    open_at_send   \* history: the open project when each Msg was sent

storeVars == <<projects, open_project, now, panicked, last_msg, pre>>
clientVars == <<persisted, loading, notifications, reqs>>
uiVars == <<queue, window_open, ui, sent, applied, due, open_at_send>>
vars == <<projects, open_project, now, panicked, last_msg, pre,
          persisted, loading, notifications, reqs,
          queue, window_open, ui, sent, applied, due, open_at_send>>

\* ================================================================ projects.rs

\* Project::new(name): owned, not public, default payload, a fresh time-ordered id.
Project_new(name, t) ==
    [name |-> name, is_owned |-> TRUE, is_public |-> FALSE,
     data |-> DefaultData, id |-> t, created_at |-> t]

\* The store as apply_update sees it (&mut self), with the time source.
Self == [projects |-> projects, open_project |-> open_project,
         now |-> now, panicked |-> panicked]

\* Projects::new: one project "Unnamed", which is the open one.
Projects_new ==
    LET project == Project_new("Unnamed", 1)
    IN [projects |-> <<project>>, open_project |-> project.id,
        now |-> 2, panicked |-> FALSE]

\* iter().position(|p| p.id == id): the first index, 0 for Option::None.
Position(ps, id) ==
    IF \E i \in 1..Len(ps) : ps[i].id = id
    THEN CHOOSE i \in 1..Len(ps) :
             ps[i].id = id /\ \A j \in 1..(i - 1) : ps[j].id # id
    ELSE 0

\* The entries of a Vec, as the set a closure over one of them is defined on.
Entries(ps) == {ps[i] : i \in 1..Len(ps)}

\* with_current as it would be if it edited the newest entry of the collection.
with_current_newest(s, f) ==
    IF Position(s.projects, s.open_project) = 0
    THEN [s EXCEPT !.panicked = TRUE]
    ELSE [s EXCEPT !.projects[Len(s.projects)] = f[s.projects[Len(s.projects)]]]

\* with_current as it would be if it edited the first entry of the collection.
with_current_first(s, f) ==
    IF Position(s.projects, s.open_project) = 0
    THEN [s EXCEPT !.panicked = TRUE]
    ELSE [s EXCEPT !.projects[1] = f[s.projects[1]]]

\* Projects::with_current: position(..).unwrap(), then f on that entry. The
\* closure f is a function on the entries.
with_current(s, f) ==
    LET i == Position(s.projects, s.open_project)
    IN IF i = 0
       THEN [s EXCEPT !.panicked = TRUE]
       ELSE [s EXCEPT !.projects[i] = f[s.projects[i]]]

\* Projects::current: find(..).unwrap(); None stands for the panic.
current(s) ==
    LET i == Position(s.projects, s.open_project)
    IN IF i = 0 THEN None ELSE Some(s.projects[i])

\* Vec::retain(|p| p.id != id)
Retain(ps, id) == SelectSeq(ps, LAMBDA p : p.id # id)

\* The Msg enum.
Msg_New(name, data) == [name |-> name, data |-> data, type |-> "New"]
Msg_UpdateData(data) == [data |-> data, type |-> "UpdateData"]
Msg_Select(id) == [id |-> id, type |-> "Select"]
Msg_Rename(name) == [name |-> name, type |-> "Rename"]
Msg_TogglePublic == [type |-> "TogglePublic"]
Msg_Delete == [type |-> "Delete"]

\* Msg::New as it would be if it left the open project as it was.
ApplyNew_keepsOpen(s, name, data) ==
    LET p0 == Project_new(name, s.now)
        p == IF data # None THEN [p0 EXCEPT !.data = unwrap(data)] ELSE p0
    IN [s EXCEPT !.projects = Append(s.projects, p),
                 !.now = s.now + 1]

\* apply_update, Msg::New arm.
ApplyNew(s, name, data) ==
    LET p0 == Project_new(name, s.now)
        p == IF data # None THEN [p0 EXCEPT !.data = unwrap(data)] ELSE p0
    IN [s EXCEPT !.open_project = p.id,
                 !.projects = Append(s.projects, p),
                 !.now = s.now + 1]

\* apply_update, Msg::Select arm.
ApplySelect(s, id) == [s EXCEPT !.open_project = id]

\* Msg::Delete as it would be if it opened the last remaining entry.
ApplyDelete_opensLast(s) ==
    LET kept == Retain(s.projects, s.open_project)
        s1 == [s EXCEPT !.projects = kept]
    IN IF Len(kept) > 0
       THEN [s1 EXCEPT !.open_project = kept[Len(kept)].id]
       ELSE ApplyNew(s1, "Unnamed", None)

\* apply_update, Msg::Delete arm.
ApplyDelete(s) ==
    LET kept == Retain(s.projects, s.open_project)
        s1 == [s EXCEPT !.projects = kept]
    IN IF Len(kept) > 0
       THEN [s1 EXCEPT !.open_project = kept[1].id]
       ELSE ApplyNew(s1, "Unnamed", None)

\* Projects::apply_update
apply_update(s, msg) ==
    CASE msg.type = "New" -> ApplyNew(s, msg.name, msg.data)
      [] msg.type = "UpdateData" ->
            with_current(s, [p \in Entries(s.projects) |-> [p EXCEPT !.data = msg.data]])
      [] msg.type = "Select" -> ApplySelect(s, msg.id)
      [] msg.type = "Rename" ->
            with_current(s, [p \in Entries(s.projects) |-> [p EXCEPT !.name = msg.name]])
      [] msg.type = "TogglePublic" ->
            with_current(s, [p \in Entries(s.projects) |->
                                [p EXCEPT !.is_public = ~p.is_public]])
      [] msg.type = "Delete" -> ApplyDelete(s)

\* Whether applying msg draws a fresh id from the time source.
NeedsUuid(s, msg) ==
    \/ msg.type = "New"
    \/ msg.type = "Delete" /\ Len(Retain(s.projects, s.open_project)) = 0

\* One application of apply_update, with the history of the step.
Apply(msg) ==
    /\ ~panicked
    /\ NeedsUuid(Self, msg) => now <= MaxUuid
    /\ LET s == apply_update(Self, msg)
       IN /\ projects' = s.projects
          /\ open_project' = s.open_project
          /\ now' = s.now
          /\ panicked' = s.panicked
    /\ last_msg' = msg
    /\ pre' = [projects |-> projects, open_project |-> open_project]
    /\ UNCHANGED clientVars

\* Ids a Select can carry: the foreign one and every id handed out so far
\* (an id handed out may have been deleted since).
SelectIds == {ForeignUuid} \cup (1..(now - 1))

New ==
    /\ \E name \in Names, data \in {None} \cup {Some(d) : d \in Payloads} :
          Apply(Msg_New(name, data))
    /\ UNCHANGED uiVars
UpdateData == (\E data \in Payloads : Apply(Msg_UpdateData(data))) /\ UNCHANGED uiVars
Select == (\E id \in SelectIds : Apply(Msg_Select(id))) /\ UNCHANGED uiVars
Rename == (\E name \in Names : Apply(Msg_Rename(name))) /\ UNCHANGED uiVars
TogglePublic == Apply(Msg_TogglePublic) /\ UNCHANGED uiVars
Delete == Apply(Msg_Delete) /\ UNCHANGED uiVars

\* ===================================================== claims on the store

\* Whether id names an entry of ps.
Names_entry(ps, id) == \E i \in 1..Len(ps) : ps[i].id = id

\* ps without its i-th entry.
Without(ps, i) == SubSeq(ps, 1, i - 1) \o SubSeq(ps, i + 1, Len(ps))

\* C1: in every state reached by applying Msgs through apply_update, the
\* project collection is non-empty and open_project is the id of an entry.
C1_NonEmptyAndOpenValid ==
    Len(projects) > 0 /\ Names_entry(projects, open_project)

\* C7: a Select whose id names no entry changes neither open_project nor
\* the collection.
C7_SelectUnknownIsNoOp ==
    (last_msg.type = "Select" /\ ~Names_entry(pre.projects, last_msg.id))
        => (open_project = pre.open_project /\ projects = pre.projects)

\* C8: no Msg panics: the unwrap() in with_current never fails.
C8_NoPanic == ~panicked

\* C9: Delete applied to a collection of exactly one project leaves exactly
\* one project, with another id, named "Unnamed", owned, not public, with
\* the default payload, and open.
C9_DeleteLastSynthesizesDefault ==
    (last_msg.type = "Delete" /\ Len(pre.projects) = 1)
        => /\ Len(projects) = 1
           /\ projects[1].id # pre.projects[1].id
           /\ projects[1].name = "Unnamed"
           /\ projects[1].is_owned
           /\ ~projects[1].is_public
           /\ projects[1].data = DefaultData
           /\ open_project = projects[1].id

\* C10: Delete applied to two or more projects, the open id naming an entry,
\* removes exactly the open project, keeps every other entry unchanged and in
\* order, and opens the first remaining entry.
C10_DeleteOpensFirstRemaining ==
    (/\ last_msg.type = "Delete"
     /\ Len(pre.projects) >= 2
     /\ Names_entry(pre.projects, pre.open_project))
        => /\ \E i \in 1..Len(pre.projects) :
                /\ pre.projects[i].id = pre.open_project
                /\ projects = Without(pre.projects, i)
           /\ ~Names_entry(projects, pre.open_project)
           /\ open_project = projects[1].id

\* C10 witness: the middle one of three projects was open and was deleted.
C10_Witness ==
    /\ last_msg.type = "Delete"
    /\ Len(pre.projects) = 3
    /\ pre.projects[2].id = pre.open_project
    /\ Len(projects) = 2
    /\ open_project = projects[1].id

\* C11: New{name, data} adds exactly one project, at the end, with an id that
\* no project of the collection had, the given name, owned, not public, with
\* the payload data if there is one and the default payload otherwise; the new
\* project is the open one and every entry there was is unchanged.
C11_NewAppendsFreshOpenProject ==
    last_msg.type = "New"
        => /\ Len(projects) = Len(pre.projects) + 1
           /\ SubSeq(projects, 1, Len(pre.projects)) = pre.projects
           /\ LET p == projects[Len(projects)]
              IN /\ ~Names_entry(pre.projects, p.id)
                 /\ p.name = last_msg.name
                 /\ p.is_owned
                 /\ ~p.is_public
                 /\ p.data = (IF last_msg.data = None
                              THEN DefaultData
                              ELSE unwrap(last_msg.data))
                 /\ open_project = p.id

\* C11 witness: a New with a payload was applied to two projects, the first
\* of them open; the third entry carries the payload and is open.
C11_Witness ==
    /\ last_msg.type = "New"
    /\ last_msg.data = Some("d1")
    /\ Len(pre.projects) = 2
    /\ pre.open_project = pre.projects[1].id
    /\ Len(projects) = 3
    /\ projects[3].data = "d1"
    /\ open_project = projects[3].id

\* What Rename, TogglePublic or UpdateData makes of the project p.
Edited(p, msg) ==
    CASE msg.type = "Rename" -> [p EXCEPT !.name = msg.name]
      [] msg.type = "TogglePublic" -> [p EXCEPT !.is_public = ~p.is_public]
      [] msg.type = "UpdateData" -> [p EXCEPT !.data = msg.data]

\* C12: Rename, TogglePublic and UpdateData change the name, the public flag,
\* the payload of the project that is open when they are applied, and nothing
\* else: not another project, not another field, not the open id, not the
\* size of the collection.
C12_EditsOnlyOpenField ==
    last_msg.type \in {"Rename", "TogglePublic", "UpdateData"}
        => /\ open_project = pre.open_project
           /\ Len(projects) = Len(pre.projects)
           /\ \A i \in 1..Len(pre.projects) :
                projects[i] = (IF pre.projects[i].id = pre.open_project
                               THEN Edited(pre.projects[i], last_msg)
                               ELSE pre.projects[i])

\* C12 witness: the first project was renamed "Foo" while it was open, then a
\* second, existing project was selected and renamed "Bar".
C12_Witness ==
    /\ last_msg = Msg_Rename("Bar")
    /\ Len(projects) >= 2
    /\ pre.open_project = projects[2].id
    /\ pre.projects[2].name # "Bar"
    /\ projects[1].name = "Foo"
    /\ projects[2].name = "Bar"

\* ====================================================== the mutation queue

\* How many Msgs of a sequence draw a fresh id when they are applied, at most.
RECURSIVE Uuids(_)
Uuids(ms) ==
    IF ms = <<>> THEN 0
    ELSE (IF Head(ms).type \in {"New", "Delete"} THEN 1 ELSE 0) + Uuids(Tail(ms))

\* Sender::send(msg): msg goes to the end of the channel. A run sends MaxSent
\* Msgs and draws MaxUuid ids at most.
send(msg) ==
    /\ Len(sent) < MaxSent
    /\ now + Uuids(Append(queue, msg)) <= MaxUuid + 1
    /\ queue' = Append(queue, msg)
    /\ sent' = Append(sent, msg)
    /\ open_at_send' = Append(open_at_send, open_project)

\* ProjectsHandle::update_project, called by a completion callback on a
\* transport thread at any moment of the UI's pass.
update_project ==
    /\ \E data \in Payloads : send(Msg_UpdateData(data))
    /\ UNCHANGED <<window_open, ui, applied, due>>
    /\ UNCHANGED <<storeVars, clientVars>>

\* Projects::show_toggle, the label clicked.
show_toggle ==
    /\ ui = "idle"
    /\ window_open' = ~window_open
    /\ UNCHANGED <<queue, ui, sent, applied, due, open_at_send>>
    /\ UNCHANGED <<storeVars, clientVars>>

\* Projects::show_window: egui::Window::open(&mut open).show(..) runs the
\* closure, show_ui, only for an open window; for a closed one the pass is over.
show_window ==
    /\ ui = "idle"
    /\ ui' = IF window_open THEN "drain" ELSE "idle"
    /\ due' = Len(sent)
    /\ UNCHANGED <<queue, window_open, sent, applied, open_at_send>>
    /\ UNCHANGED <<storeVars, clientVars>>

\* The drain as it would be if it took the newest Msg of the channel first.
try_iter_next_newestFirst ==
    /\ ui = "drain"
    /\ queue # <<>>
    /\ Apply(queue[Len(queue)])
    /\ queue' = SubSeq(queue, 1, Len(queue) - 1)
    /\ applied' = Append(applied, queue[Len(queue)])
    /\ UNCHANGED <<window_open, ui, sent, due, open_at_send>>

\* show_ui, one turn of `for msg in receiver.lock().try_iter()`: the oldest Msg
\* leaves the channel and is applied.
try_iter_next ==
    /\ ui = "drain"
    /\ queue # <<>>
    /\ Apply(Head(queue))
    /\ queue' = Tail(queue)
    /\ applied' = Append(applied, Head(queue))
    /\ UNCHANGED <<window_open, ui, sent, due, open_at_send>>

\* show_ui, the end of the loop: try_iter finds the channel empty; the
\* rendering of the table and of the buttons follows.
try_iter_end ==
    /\ ui = "drain"
    /\ queue = <<>>
    /\ ui' = "render"
    /\ UNCHANGED <<queue, window_open, sent, applied, due, open_at_send>>
    /\ UNCHANGED <<storeVars, clientVars>>

\* The rest of show_ui with the widget clicked that sends msg; a pass sees
\* one click at most.
Click(msg) ==
    /\ ui = "render"
    /\ send(msg)
    /\ ui' = "idle"
    /\ UNCHANGED <<window_open, applied, due>>
    /\ UNCHANGED <<storeVars, clientVars>>

click_row == \E i \in 1..Len(projects) : Click(Msg_Select(projects[i].id))
click_create == \E name \in Names : Click(Msg_New(name, None))
click_import == \E data \in Payloads : Click(Msg_New("JSON import", Some(data)))
click_rename == \E name \in Names : Click(Msg_Rename(name))
click_delete == Click(Msg_Delete)
click_public == Click(Msg_TogglePublic)

\* The rest of show_ui with nothing sent; show_window then stores `open`,
\* which the window's close button has set to false or left alone.
show_ui_end ==
    /\ ui = "render"
    /\ ui' = "idle"
    /\ \E open \in BOOLEAN : window_open' = open
    /\ UNCHANGED <<queue, sent, applied, due, open_at_send>>
    /\ UNCHANGED <<storeVars, clientVars>>

\* C13: a drain applies the Msgs of the channel one at a time, oldest first,
\* so that at every moment the Msgs sent are those applied followed by those
\* still queued, in send order (none lost, none reordered, whoever sends
\* meanwhile); the drain ends, and rendering starts, with the channel empty;
\* nothing but a turn of the drain changes the store.
C13_DrainAppliesAllInOrder ==
    [][/\ sent' = applied' \o queue'
       /\ applied' # applied =>
            /\ ui = "drain" /\ queue # <<>>
            /\ applied' = Append(applied, Head(queue))
            /\ last_msg' = Head(queue)
            /\ pre' = [projects |-> projects, open_project |-> open_project]
            /\ projects' = apply_update(Self, Head(queue)).projects
            /\ open_project' = apply_update(Self, Head(queue)).open_project
       /\ applied' = applied => UNCHANGED <<projects, open_project>>
       /\ (ui = "drain" /\ ui' # "drain") => (queue = <<>> /\ ui' = "render")
       /\ ui = "render" => UNCHANGED <<projects, open_project>>]_vars

\* C13 witness: a Rename of the UI and an UpdateData of a callback, both sent
\* before the pass began, were applied in that order; rendering has started
\* and a Msg sent during the drain is still queued.
C13_Witness ==
    /\ ui = "render"
    /\ due = 2
    /\ applied = <<Msg_Rename("Foo"), Msg_UpdateData("d1")>>
    /\ Len(queue) = 1
    /\ projects[1].name = "Foo"
    /\ projects[1].data = "d1"

\* C20: a Msg sent before a pass of the UI begins has been applied when that
\* pass is over, whether the Projects window is open or closed in that pass.
C20_AppliedInNextPass == ui = "idle" => Len(applied) >= due

\* C23: an UpdateData sent by a callback overwrites the payload of the
\* project that is open when the drain applies it and of no other: when the
\* project that was open at the send is another one (a Select, New or Delete
\* was applied in between), that project keeps its payload.
C23_UpdateDataGoesToOpenAtApply ==
    (last_msg.type = "UpdateData" /\ applied # <<>>)
        => LET o == open_at_send[Len(applied)]
           IN /\ applied[Len(applied)] = last_msg
              /\ Names_entry(pre.projects, pre.open_project)
              /\ Len(projects) = Len(pre.projects)
              /\ \A i \in 1..Len(pre.projects) :
                   IF pre.projects[i].id = pre.open_project
                   THEN projects[i] = [pre.projects[i] EXCEPT !.data = last_msg.data]
                   ELSE projects[i] = pre.projects[i]
              /\ o # pre.open_project =>
                   \A i \in 1..Len(pre.projects) :
                        pre.projects[i].id = o => projects[i].data = pre.projects[i].data

\* C23 witness: an UpdateData was sent while the second project was open; the
\* Select of the first project, sent before it, was applied first; the first
\* project got the payload and the second kept its own.
C23_Witness ==
    /\ Len(applied) = 3
    /\ applied[2] = Msg_Select(1)
    /\ applied[3] = Msg_UpdateData("d1")
    /\ last_msg = Msg_UpdateData("d1")
    /\ open_at_send[3] = 2
    /\ pre.open_project = 1
    /\ Len(projects) = 2
    /\ projects[1].data = "d1"
    /\ projects[2].id = 2
    /\ projects[2].data = DefaultData

\* ================================================================= client.rs

Emails == {"a@x", "b@x"}

\* struct Session { id }
Session(id) == [id |-> id]

\* struct UserData { email, id, session }
UserData(email, id, session) == [id |-> id, email |-> email, session |-> session]

\* Client::new
Client_new == [user_data |-> None]

\* What the host's persistence may hold at start-up: nothing, or the identity
\* a previous run stored.
Persisted == {None, Some([user_data |-> Some(UserData("a@x", 1, Session("s1")))])}

\* Client::load as it would be if it ignored what is persisted.
load_ignoresPersisted(ctx) == Client_new

\* Client::load: get_persisted(..).unwrap_or(Self::new())
load(ctx) == IF ctx = None THEN Client_new ELSE unwrap(ctx)

\* Client::store: insert_persisted
store(client) == Some(client)

\* Client::modify: load, f, store. Each of load and store takes the context's
\* lock on its own; every f of this file overwrites the whole of user_data, so
\* the stored value does not depend on what another thread stores in between.
\* The closure f is a function on the Client that load returns.
modify(ctx, f) == store(f[load(ctx)])

\* Client::user_data: the identity the SessionStore holds.
user_data == load(persisted).user_data

\* Loading::start_loading as it would be if it raised a flag, not a count.
Loading_start_loading_flag(n) == 1

\* Loading::start_loading / Loading::loading_done (crate::loading).
Loading_start_loading(n) == n + 1
Loading_loading_done(n) == n - 1

\* Notifications::error as it would be if it put the message in the sink twice.
Notifications_error_twice(n) == n + 2

\* Notifications::error (crate::notifications): one more message in the sink.
Notifications_error(n) == n + 1

\* --- responses

\* The body of a response: bytes that are no UTF-8 text, the empty text, the
\* JSON null, a JSON object that lacks a required field, or a JSON value of
\* one of the shapes the operations decode.
Body(kind) == [kind |-> kind]
SessionBodies ==
    {[kind |-> "Response", user_id |-> 1, session_id |-> "s1"],
     [kind |-> "Response", user_id |-> 2, session_id |-> "s2"]}
ShapedBodies(O) ==
    IF O = "Response" THEN SessionBodies
    ELSE IF O = "Unit" THEN {}
    ELSE {Body(O)}
Bodies(O) ==
    {Body("NoText"), Body("Empty"), Body("Null"), Body("Partial")} \cup ShapedBodies(O)

\* Result<Response>: Err(_) of the transport, or a status and a body. A status
\* other than 200 carries its error text (or none).
TransportError == [ok |-> FALSE, status |-> 0, body |-> Body("NoText")]
Responses(O) ==
    {TransportError}
    \cup {[ok |-> TRUE, status |-> 200, body |-> b] : b \in Bodies(O)}
    \cup {[ok |-> TRUE, status |-> 404, body |-> b] : b \in {Body("NoText"), Body("Empty")}}

\* Response::text(): None for bytes that are no UTF-8.
text(response) == IF response.body.kind = "NoText" THEN None ELSE Some(response.body)

\* serde_json::from_str::<O>: () decodes from null alone, a struct or a
\* vector from a value of its own shape alone.
from_str(O, body) ==
    IF O = "Unit"
    THEN (IF body.kind = "Null" THEN Some(body) ELSE None)
    ELSE (IF body.kind = O THEN Some(body) ELSE None)

\* The arm of fetch_json's match that a response takes.
Outcome(O, response) ==
    IF ~response.ok THEN "transport"
    ELSE IF response.status # 200 THEN "status"
    ELSE IF text(response) = None THEN "decode"
    ELSE IF from_str(O, unwrap(text(response))) = None THEN "decode"
    ELSE "ok"

\* --- requests

\* One entry of a request's log: a closure of fetch_json was invoked
\* ("on_done", "on_success", "on_error"), the loading counter was decremented
\* ("loading_done"), an error notification was raised ("notify"), or the
\* callback the caller of the API operation passed was invoked ("caller").
Ev(ev, arg) == [ev |-> ev, arg |-> arg]

\* How often ev occurs in log.
Count(log, ev) == Cardinality({i \in 1..Len(log) : log[i].ev = ev})

\* The request r with its program counter set and events appended.
Step(req, pc, evs) == [req EXCEPT !.pc = pc, !.log = req.log \o evs]

\* fetch_json up to and including ehttp::fetch: runs on the calling thread.
\* O is the type to decode; on_done, on_success and on_error name the closures
\* the operation passes; email is what login and signup capture.
fetch_json(O, on_done, on_success, on_error, email) ==
    /\ Len(reqs) < MaxReq
    /\ loading' = Loading_start_loading(loading)
    /\ LET header == IF load(persisted).user_data # None
                     THEN Some(unwrap(load(persisted).user_data).session.id)
                     ELSE None
       IN reqs' = Append(reqs,
              [email |-> email, O |-> O, response |-> TransportError,
               log |-> <<>>, pc |-> "flight", on_done |-> on_done,
               on_success |-> on_success, on_error |-> on_error,
               header |-> header])
    /\ UNCHANGED <<persisted, notifications>>
    /\ UNCHANGED <<storeVars, uiVars>>

\* The API operations.
signup == \E email \in Emails : fetch_json("Response", "noop", "session", "caller_none", email)
login == \E email \in Emails : fetch_json("Response", "noop", "session", "caller_none", email)
logout == fetch_json("Unit", "logout", "noop", "noop", "")
create_project == fetch_json("ProjectId", "noop", "caller", "noop", "")
list_projects == fetch_json("Vec<ProjectEntry>", "noop", "caller", "noop", "")
load_project == fetch_json("Project", "noop", "caller", "noop", "")
set_project_public == fetch_json("Unit", "caller", "noop", "noop", "")
set_project_data == fetch_json("Unit", "caller", "noop", "noop", "")
set_project_name == fetch_json("Unit", "caller", "noop", "noop", "")

\* logout's on_done closure as it would be if it stored what it loaded.
ClearOnLogout_keeps(ctx) == store(load(ctx))

\* logout's on_done closure, up to the caller's on_done(): the modify.
ClearOnLogout(ctx) ==
    modify(ctx, [slf \in {load(ctx)} |-> [slf EXCEPT !.user_data = None]])

\* The completion as it would be if logout cleared the store only when the
\* server answered 200.
Complete_clearsOnlyOn200(r) ==
    /\ reqs[r].pc = "flight"
    /\ \E response \in Responses(reqs[r].O) :
        LET req == [reqs[r] EXCEPT !.response = response]
        IN CASE req.on_done = "logout" ->
                  /\ persisted' = IF response.ok /\ response.status = 200
                                  THEN ClearOnLogout(persisted)
                                  ELSE persisted
                  /\ reqs' = [reqs EXCEPT ![r] = Step(req, "logout_on_done", <<Ev("on_done", None)>>)]
             [] req.on_done = "caller" ->
                  /\ persisted' = persisted
                  /\ reqs' = [reqs EXCEPT ![r] =
                        Step(req, "loading_done", <<Ev("on_done", None), Ev("caller", None)>>)]
             [] req.on_done = "noop" ->
                  /\ persisted' = persisted
                  /\ reqs' = [reqs EXCEPT ![r] = Step(req, "loading_done", <<Ev("on_done", None)>>)]
    /\ UNCHANGED <<loading, notifications>>
    /\ UNCHANGED <<storeVars, uiVars>>

\* The completion as it would be if it went on to Loading::loading_done
\* without calling on_done().
Complete_skipsOnDone(r) ==
    /\ reqs[r].pc = "flight"
    /\ \E response \in Responses(reqs[r].O) :
        reqs' = [reqs EXCEPT ![r] =
                    Step([reqs[r] EXCEPT !.response = response], "loading_done", <<>>)]
    /\ UNCHANGED <<persisted, loading, notifications>>
    /\ UNCHANGED <<storeVars, uiVars>>

\* The completion closure starts on a transport thread with the response and
\* calls on_done(). logout's on_done first clears the store (Client::modify);
\* the other operations pass the caller's closure or an empty one.
Complete(r) ==
    /\ reqs[r].pc = "flight"
    /\ \E response \in Responses(reqs[r].O) :
        LET req == [reqs[r] EXCEPT !.response = response]
        IN CASE req.on_done = "logout" ->
                  /\ persisted' = ClearOnLogout(persisted)
                  /\ reqs' = [reqs EXCEPT ![r] = Step(req, "logout_on_done", <<Ev("on_done", None)>>)]
             [] req.on_done = "caller" ->
                  /\ persisted' = persisted
                  /\ reqs' = [reqs EXCEPT ![r] =
                        Step(req, "loading_done", <<Ev("on_done", None), Ev("caller", None)>>)]
             [] req.on_done = "noop" ->
                  /\ persisted' = persisted
                  /\ reqs' = [reqs EXCEPT ![r] = Step(req, "loading_done", <<Ev("on_done", None)>>)]
    /\ UNCHANGED <<loading, notifications>>
    /\ UNCHANGED <<storeVars, uiVars>>

\* logout's on_done, after the modify: the caller's on_done().
logout_on_done(r) ==
    /\ reqs[r].pc = "logout_on_done"
    /\ reqs' = [reqs EXCEPT ![r] = Step(reqs[r], "loading_done", <<Ev("caller", None)>>)]
    /\ UNCHANGED <<persisted, loading, notifications>>
    /\ UNCHANGED <<storeVars, uiVars>>

\* Loading::loading_done(&ctx) in the completion closure.
loading_done(r) ==
    /\ reqs[r].pc = "loading_done"
    /\ loading' = Loading_loading_done(loading)
    /\ reqs' = [reqs EXCEPT ![r] = Step(reqs[r], "match", <<Ev("loading_done", None)>>)]
    /\ UNCHANGED <<persisted, notifications>>
    /\ UNCHANGED <<storeVars, uiVars>>

\* on_success as it would be if it kept an identity the store already holds.
store_session_keepsOld(ctx, email, response) ==
    IF load(ctx).user_data # None
    THEN store(load(ctx))
    ELSE modify(ctx, [slf \in {load(ctx)} |-> [slf EXCEPT !.user_data =
            Some(UserData(email, response.user_id, Session(response.session_id)))]])

\* on_success(json) of login and signup, up to the caller's callback: the
\* identity of this call's email and the response's ids replaces the store's.
store_session(ctx, email, response) ==
    modify(ctx, [slf \in {load(ctx)} |-> [slf EXCEPT !.user_data =
        Some(UserData(email, response.user_id, Session(response.session_id)))]])

\* The match on the response: on_success(json) for a 200 whose text decodes,
\* else the error closure, which first raises the notification.
match_response(r) ==
    /\ reqs[r].pc = "match"
    /\ LET req == reqs[r]
           outcome == Outcome(req.O, req.response)
       IN IF outcome = "ok"
          THEN /\ notifications' = notifications
               /\ CASE req.on_success = "session" ->
                         /\ persisted' = store_session(persisted, req.email, req.response.body)
                         /\ reqs' = [reqs EXCEPT ![r] =
                               Step(req, "on_success", <<Ev("on_success", None)>>)]
                    [] req.on_success = "caller" ->
                         /\ persisted' = persisted
                         /\ reqs' = [reqs EXCEPT ![r] =
                               Step(req, "done", <<Ev("on_success", None),
                                                   Ev("caller", Some(req.response.body))>>)]
                    [] req.on_success = "noop" ->
                         /\ persisted' = persisted
                         /\ reqs' = [reqs EXCEPT ![r] =
                               Step(req, "done", <<Ev("on_success", None)>>)]
          ELSE /\ notifications' = Notifications_error(notifications)
               /\ persisted' = persisted
               /\ reqs' = [reqs EXCEPT ![r] = Step(req, "error", <<Ev("notify", None)>>)]
    /\ UNCHANGED loading
    /\ UNCHANGED <<storeVars, uiVars>>

\* on_success of login and signup as it would be if it called on_done(None).
on_success_callsBackNone(r) ==
    /\ reqs[r].pc = "on_success"
    /\ reqs' = [reqs EXCEPT ![r] = Step(reqs[r], "done", <<Ev("caller", None)>>)]
    /\ UNCHANGED <<persisted, loading, notifications>>
    /\ UNCHANGED <<storeVars, uiVars>>

\* on_success of login and signup, after the modify: on_done(Some(session)).
on_success(r) ==
    /\ reqs[r].pc = "on_success"
    /\ reqs' = [reqs EXCEPT ![r] = Step(reqs[r], "done",
            <<Ev("caller", Some(Session(reqs[r].response.body.session_id)))>>)]
    /\ UNCHANGED <<persisted, loading, notifications>>
    /\ UNCHANGED <<storeVars, uiVars>>

\* The error closure as it would be if it raised the notification and never
\* called on_error().
on_error_notCalled(r) ==
    /\ reqs[r].pc = "error"
    /\ reqs' = [reqs EXCEPT ![r] = Step(reqs[r], "done", <<>>)]
    /\ UNCHANGED <<persisted, loading, notifications>>
    /\ UNCHANGED <<storeVars, uiVars>>

\* The error closure as it would be if a failed login or signup cleared the store.
on_error_clearsStore(r) ==
    /\ reqs[r].pc = "error"
    /\ reqs' = [reqs EXCEPT ![r] = Step(reqs[r], "done",
            IF reqs[r].on_error = "caller_none"
            THEN <<Ev("on_error", None), Ev("caller", None)>>
            ELSE <<Ev("on_error", None)>>)]
    /\ persisted' = IF reqs[r].on_error = "caller_none"
                    THEN store(Client_new)
                    ELSE persisted
    /\ UNCHANGED <<loading, notifications>>
    /\ UNCHANGED <<storeVars, uiVars>>

\* The error closure as it would be if it sent the request again.
on_error_retries(r) ==
    /\ reqs[r].pc = "error"
    /\ reqs' = [reqs EXCEPT ![r] = Step(reqs[r], "flight", <<Ev("on_error", None)>>)]
    /\ loading' = Loading_start_loading(loading)
    /\ UNCHANGED <<persisted, notifications>>
    /\ UNCHANGED <<storeVars, uiVars>>

\* The error closure after the notification: on_error(), which for login and
\* signup is on_done2(None).
on_error(r) ==
    /\ reqs[r].pc = "error"
    /\ reqs' = [reqs EXCEPT ![r] = Step(reqs[r], "done",
            IF reqs[r].on_error = "caller_none"
            THEN <<Ev("on_error", None), Ev("caller", None)>>
            ELSE <<Ev("on_error", None)>>)]
    /\ UNCHANGED <<persisted, loading, notifications>>
    /\ UNCHANGED <<storeVars, uiVars>>

InitClient ==
    /\ persisted \in Persisted
    /\ loading = 0
    /\ notifications = 0
    /\ reqs = <<>>

\* The channel is empty, the Projects window open (Projects::new), the UI
\* thread between two passes.
InitUi ==
    /\ queue = <<>>
    /\ window_open = TRUE
    /\ ui = "idle"
    /\ sent = <<>>
    /\ applied = <<>>
    /\ due = 0
    /\ open_at_send = <<>>

\* ==================================================== claims on the client

Issued == 1..Len(reqs)

\* The four outcomes of a response, read off the response itself.
IsTransportFailure(req) == ~req.response.ok
IsBadStatus(req) == req.response.ok /\ req.response.status # 200
IsUndecodable(req) ==
    /\ req.response.ok
    /\ req.response.status = 200
    /\ req.response.body.kind # (IF req.O = "Unit" THEN "Null" ELSE req.O)
IsDecodable(req) ==
    /\ req.response.ok
    /\ req.response.status = 200
    /\ req.response.body.kind = (IF req.O = "Unit" THEN "Null" ELSE req.O)

IsLoginOrSignup(req) == req.on_success = "session"
IsLogout(req) == req.on_done = "logout"

\* C2: for every request and every outcome, on_done is invoked exactly once
\* and exactly one of on_success and on_error exactly once; on_success only
\* for a 200 with a decodable body.
C2_ExactlyOneOutcomeCallback ==
    \A r \in Issued :
        LET req == reqs[r]
            nd == Count(req.log, "on_done")
            ns == Count(req.log, "on_success")
            ne == Count(req.log, "on_error")
        IN /\ nd <= 1 /\ ns + ne <= 1
           /\ req.pc = "flight" => nd + ns + ne = 0
           /\ req.pc # "flight" => nd = 1
           /\ ns = 1 => (req.pc # "flight" /\ IsDecodable(req))
           /\ req.pc = "done" =>
                /\ nd = 1
                /\ ns + ne = 1
                /\ ns = 1 <=> IsDecodable(req)

\* C2 witness: one request ended on a 200 it could decode, another on a 200 it
\* could not, each with its callbacks invoked.
C2_Witness ==
    \E r1 \in Issued, r2 \in Issued :
        /\ reqs[r1].pc = "done" /\ IsDecodable(reqs[r1])
        /\ Count(reqs[r1].log, "on_success") = 1
        /\ reqs[r2].pc = "done" /\ IsUndecodable(reqs[r2])
        /\ Count(reqs[r2].log, "on_error") = 1
        /\ Count(reqs[r2].log, "on_done") = 1

\* C3: a request carries the Session header, with the token the store holds
\* when the request is issued, exactly if the store holds an identity then; no
\* later step (a login, signup or logout completing) changes what it carries.
C3_HeaderIsTokenAtIssue ==
    [][\A r \in 1..Len(reqs') :
          IF r > Len(reqs)
          THEN reqs'[r].header =
                 (IF persisted = None \/ unwrap(persisted).user_data = None
                  THEN None
                  ELSE Some(unwrap(unwrap(persisted).user_data).session.id))
          ELSE reqs'[r].header = reqs[r].header]_vars

\* C3 witness: a request issued with the token "s1" is still in flight after
\* a logout completed and cleared the store.
C3_Witness ==
    \E r \in Issued, q \in Issued :
        /\ reqs[r].pc = "flight"
        /\ reqs[r].header = Some("s1")
        /\ IsLogout(reqs[q]) /\ reqs[q].pc = "done"
        /\ user_data = None

\* C4: the step in which a login or signup runs on_success (a 200 with a
\* decodable body) leaves the store holding the identity of that call's email
\* and that response's user id and session id, whatever it held before.
C4_LoginSuccessReplacesIdentity ==
    [][\A r \in Issued :
          (/\ IsLoginOrSignup(reqs[r])
           /\ IsDecodable(reqs[r])
           /\ Count(reqs[r].log, "on_success") = 0
           /\ Count(reqs'[r].log, "on_success") = 1)
            => load(persisted').user_data =
                 Some(UserData(reqs[r].email,
                               reqs[r].response.body.user_id,
                               Session(reqs[r].response.body.session_id)))]_vars

\* C4 witness: a login issued while the store held the session "s1" succeeded
\* with the session "s2", which the store now holds.
C4_Witness ==
    \E r \in Issued :
        /\ IsLoginOrSignup(reqs[r])
        /\ reqs[r].header = Some("s1")
        /\ reqs[r].pc = "on_success"
        /\ reqs[r].response.body.session_id = "s2"
        /\ user_data = Some(UserData(reqs[r].email, 2, Session("s2")))

\* C5: no step of the completion of a login or signup that failed (transport
\* failure, a status other than 200, a 200 without a decodable body) changes
\* the identity the store holds.
C5_LoginFailureKeepsIdentity ==
    [][\A r \in Issued :
          (/\ IsLoginOrSignup(reqs[r])
           /\ reqs'[r] # reqs[r]
           /\ ~IsDecodable(reqs'[r]))
            => load(persisted').user_data = load(persisted).user_data]_vars

\* C5 witness: a login failed, all its callbacks have run, and the store still
\* holds the identity it held when the login was issued.
C5_Witness ==
    \E r \in Issued :
        /\ IsLoginOrSignup(reqs[r])
        /\ reqs[r].pc = "done"
        /\ IsUndecodable(reqs[r])
        /\ Count(reqs[r].log, "on_error") = 1
        /\ reqs[r].header = Some("s1")
        /\ user_data = Some(UserData("a@x", 1, Session("s1")))

IsAckOnly(req) == req.O = "Unit"

\* C14: an ack-only request answered with status 200 and an empty body raises
\* no error notification and does not invoke on_error.
C14_EmptyAckIsSuccess ==
    \A r \in Issued :
        (/\ IsAckOnly(reqs[r])
         /\ reqs[r].response.ok
         /\ reqs[r].response.status = 200
         /\ reqs[r].response.body.kind = "Empty")
            => /\ Count(reqs[r].log, "notify") = 0
               /\ Count(reqs[r].log, "on_error") = 0

\* Whether every ev of the log comes after some event `first` of the log.
After(log, first, ev) ==
    \A i \in 1..Len(log) :
        log[i].ev = ev => \E j \in 1..(i - 1) : log[j].ev = first

\* C15: a request that ends in an error (transport failure, a status other
\* than 200, a 200 whose body is missing or does not decode) raises exactly
\* one error notification, before its on_error; a request that ends in
\* success raises none; the sink holds one message per failed request.
C15_OneNotificationPerError ==
    /\ \A r \in Issued :
         LET req == reqs[r]
             nn == Count(req.log, "notify")
         IN /\ nn <= 1
            /\ After(req.log, "notify", "on_error")
            /\ Count(req.log, "on_success") = 1 => nn = 0
            /\ req.pc \in {"error", "done"} => (nn = 1 <=> ~IsDecodable(req))
            /\ req.pc \notin {"error", "done", "on_success"} => nn = 0
    /\ notifications =
         Cardinality({r \in Issued : Count(reqs[r].log, "notify") = 1})

\* C15 witness: one request failed on its status, another at the transport;
\* each has run its on_error and the sink holds two messages.
C15_Witness ==
    \E r1 \in Issued, r2 \in Issued :
        /\ reqs[r1].pc = "done" /\ IsBadStatus(reqs[r1])
        /\ reqs[r2].pc = "done" /\ IsTransportFailure(reqs[r2])
        /\ Count(reqs[r1].log, "on_error") = 1
        /\ Count(reqs[r2].log, "on_error") = 1
        /\ notifications = 2

\* The step in which the completion of the logout r runs on_done's modify.
LogoutCompletes(r) ==
    IsLogout(reqs[r]) /\ reqs[r].pc = "flight" /\ reqs'[r].pc # "flight"

\* The step in which the completion of the login or signup r runs on_success.
LoginSucceeds(r) ==
    /\ IsLoginOrSignup(reqs[r])
    /\ Count(reqs[r].log, "on_success") = 0
    /\ Count(reqs'[r].log, "on_success") = 1

\* C16: whatever the order in which logins, signups and logouts are issued
\* and completed, after every step the store holds an identity exactly if
\* the step is a successful login or signup, or it held one before and the
\* step is no logout completing; it never holds more than one. (A store that
\* starts with an identity got it from a login of an earlier run.)
C16_IdentityIffLoginSinceLogout ==
    [][/\ (user_data' # None) <=>
            (IF \E r \in Issued : LoginSucceeds(r) THEN TRUE
             ELSE IF \E r \in Issued : LogoutCompletes(r) THEN FALSE
             ELSE user_data # None)
       /\ Len(user_data') <= 1]_vars

\* C16 witness: a login was issued, then a logout; the logout completed first
\* and the login succeeded after it, so that the store holds the login's
\* identity with both requests over.
C16_Witness ==
    /\ Len(reqs) = 2
    /\ IsLoginOrSignup(reqs[1]) /\ reqs[1].pc = "done"
    /\ IsLogout(reqs[2]) /\ reqs[2].pc = "done"
    /\ Count(reqs[1].log, "on_success") = 1
    /\ user_data = Some(UserData(reqs[1].email,
                                 reqs[1].response.body.user_id,
                                 Session(reqs[1].response.body.session_id)))

\* C17: the loading counter is the number of requests issued whose completion
\* has not yet run Loading::loading_done; each request decrements it once at
\* most and it is never negative.
C17_LoadingCountsOpenRequests ==
    /\ loading = Cardinality({r \in Issued : Count(reqs[r].log, "loading_done") = 0})
    /\ loading >= 0
    /\ \A r \in Issued : Count(reqs[r].log, "loading_done") <= 1

\* C17 witness: of two requests one is still in flight and the other has
\* decremented the counter.
C17_Witness ==
    \E r1 \in Issued, r2 \in Issued :
        /\ reqs[r1].pc = "flight"
        /\ Count(reqs[r2].log, "loading_done") = 1
        /\ loading = 1

\* C18: in the completion of a request the loading counter is decremented
\* before on_done, on_success, on_error or a callback of the caller is invoked.
C18_LoadingDoneBeforeCallbacks ==
    \A r \in Issued :
        /\ After(reqs[r].log, "loading_done", "on_done")
        /\ After(reqs[r].log, "loading_done", "on_success")
        /\ After(reqs[r].log, "loading_done", "on_error")
        /\ After(reqs[r].log, "loading_done", "caller")

\* The steps of the completions: what the transport's threads do.
Completion ==
    \E r \in 1..Len(reqs) :
        \/ Complete(r)
        \/ logout_on_done(r)
        \/ loading_done(r)
        \/ match_response(r)
        \/ on_success(r)
        \/ on_error(r)

\* C19: an operation issues one request; no step of a completion issues one
\* or puts a request back in flight; with a transport that delivers every
\* completion, every request issued ends and the loading counter is 0 for
\* good once no request is issued any more.
C19_OneRequestEachCompletes ==
    /\ [][/\ Len(reqs') <= Len(reqs) + 1
          /\ \A r \in Issued :
               /\ (reqs[r].pc # "flight" => reqs'[r].pc # "flight")
               /\ (Len(reqs') > Len(reqs) => reqs'[r] = reqs[r])
               /\ reqs'[r].header = reqs[r].header
               /\ reqs'[r].O = reqs[r].O]_vars
    /\ <>[](loading = 0 /\ \A r \in Issued : reqs[r].pc = "done")

\* C19 witness: two requests were issued, one failed and one succeeded, both
\* are over and the loading counter is 0.
C19_Witness ==
    /\ Len(reqs) = MaxReq
    /\ loading = 0
    /\ \A r \in Issued : reqs[r].pc = "done"
    /\ \E r \in Issued : Count(reqs[r].log, "on_error") = 1
    /\ \E r \in Issued : Count(reqs[r].log, "on_success") = 1

\* The identity a login or signup stores when its response decodes.
Identity(req) ==
    Some(UserData(req.email, req.response.body.user_id,
                  Session(req.response.body.session_id)))

\* Whether the log has one more ev after the step than before it.
Adds(r, ev) == Count(reqs'[r].log, ev) > Count(reqs[r].log, ev)

\* C21 as stated: on_done is invoked first, before the error notification,
\* on_success and on_error; when the error notification of a failed logout is
\* raised the store holds no identity.
C21_ClearedAtNotification ==
    [][\A r \in Issued :
          LET log == reqs'[r].log
          IN /\ log # <<>> => log[1].ev = "on_done"
             /\ After(log, "on_done", "notify")
             /\ After(log, "on_done", "on_success")
             /\ After(log, "on_done", "on_error")
             /\ (IsLogout(reqs[r]) /\ Adds(r, "notify")) => user_data' = None]_vars

\* C21, amended: in the completion of a request on_done is invoked first: before the
\* error notification, before on_success and before on_error. For a logout
\* that fails, the store was cleared in an earlier step than the one that
\* raises the notification, which does not write the store: the store holds
\* no identity then, or the identity of a login or signup that succeeded on
\* another thread since.
C21_OnDoneFirst ==
    [][\A r \in Issued :
          LET log == reqs'[r].log
          IN /\ log # <<>> => log[1].ev = "on_done"
             /\ After(log, "on_done", "notify")
             /\ After(log, "on_done", "on_success")
             /\ After(log, "on_done", "on_error")
             /\ (IsLogout(reqs[r]) /\ Adds(r, "notify")) =>
                   /\ Count(reqs[r].log, "on_done") = 1
                   /\ persisted' = persisted
                   /\ \/ user_data' = None
                      \/ \E q \in Issued :
                            /\ IsLoginOrSignup(reqs[q])
                            /\ Count(reqs[q].log, "on_success") = 1
                            /\ user_data' = Identity(reqs[q])]_vars

\* C21 witness: a logout issued while the store held an identity got a status
\* other than 200; its notification is raised and the store holds no identity.
C21_Witness ==
    \E r \in Issued :
        /\ IsLogout(reqs[r])
        /\ reqs[r].header = Some("s1")
        /\ IsBadStatus(reqs[r])
        /\ reqs[r].pc = "error"
        /\ Count(reqs[r].log, "notify") = 1
        /\ notifications = 1
        /\ user_data = None

\* C22 as stated: the callback passed to login or signup is invoked once per
\* call: with Some(session) when the request succeeds, the store then holding
\* the identity with that session; with None when it fails, after the error
\* notification.
C22_StoreHoldsAtCallback ==
    [][\A r \in Issued :
          IsLoginOrSignup(reqs[r]) =>
            LET req == reqs'[r]
                log == req.log
            IN /\ Count(log, "caller") <= 1
               /\ req.pc = "done" => Count(log, "caller") = 1
               /\ \A i \in 1..Len(log) :
                    log[i].ev = "caller" =>
                      IF IsDecodable(req)
                      THEN log[i].arg = Some(Session(req.response.body.session_id))
                      ELSE /\ log[i].arg = None
                           /\ \E j \in 1..(i - 1) : log[j].ev = "notify"
               /\ (Adds(r, "caller") /\ IsDecodable(req)) =>
                    user_data' = Identity(req)]_vars

\* C22, amended: the callback passed to login or signup is invoked once per call:
\* with Some(session) of the response when the request succeeds, in a later
\* step than the one that stored the identity with that session, and with
\* None when it fails, after the error notification. The step of the
\* callback does not write the store, which then holds that identity unless
\* a logout or another login or signup has written it on another thread.
C22_LoginCallbackOnce ==
    [][\A r \in Issued :
          IsLoginOrSignup(reqs[r]) =>
            LET req == reqs'[r]
                log == req.log
            IN /\ Count(log, "caller") <= 1
               /\ req.pc = "done" => Count(log, "caller") = 1
               /\ \A i \in 1..Len(log) :
                    log[i].ev = "caller" =>
                      IF IsDecodable(req)
                      THEN /\ log[i].arg = Some(Session(req.response.body.session_id))
                           /\ \E j \in 1..(i - 1) : log[j].ev = "on_success"
                      ELSE /\ log[i].arg = None
                           /\ \E j \in 1..(i - 1) : log[j].ev = "notify"
               /\ Adds(r, "on_success") =>
                    (user_data' = Identity(req) /\ ~Adds(r, "caller"))
               /\ (Adds(r, "caller") /\ IsDecodable(req)) =>
                    /\ persisted' = persisted
                    /\ \/ user_data' = Identity(req)
                       \/ \E q \in Issued \ {r} :
                            \/ /\ IsLogout(reqs[q])
                               /\ reqs[q].pc # "flight"
                               /\ user_data' = None
                            \/ /\ IsLoginOrSignup(reqs[q])
                               /\ Count(reqs[q].log, "on_success") = 1
                               /\ user_data' = Identity(reqs[q])]_vars

\* C22 witness: one login succeeded and its callback got the session the
\* store holds; another failed and its callback got None after the
\* notification.
C22_Witness ==
    \E r1 \in Issued, r2 \in Issued :
        /\ IsLoginOrSignup(reqs[r1]) /\ reqs[r1].pc = "done"
        /\ IsDecodable(reqs[r1])
        /\ reqs[r1].log[Len(reqs[r1].log)] =
              Ev("caller", Some(Session(reqs[r1].response.body.session_id)))
        /\ user_data = Identity(reqs[r1])
        /\ IsLoginOrSignup(reqs[r2]) /\ reqs[r2].pc = "done"
        /\ ~IsDecodable(reqs[r2])
        /\ reqs[r2].log[Len(reqs[r2].log)] = Ev("caller", None)
        /\ notifications = 1

InitStore ==
    /\ projects = Projects_new.projects
    /\ open_project = Projects_new.open_project
    /\ now = Projects_new.now
    /\ panicked = Projects_new.panicked
    /\ last_msg = [type |-> "Init"]
    /\ pre = [projects |-> Projects_new.projects,
              open_project |-> Projects_new.open_project]

\* The store alone: the client is idle and nothing is persisted.
InitOfStore ==
    /\ InitStore
    /\ InitUi
    /\ persisted = None
    /\ loading = 0
    /\ notifications = 0
    /\ reqs = <<>>

Init == InitStore /\ InitClient /\ InitUi

NextStore ==
    \/ New
    \/ UpdateData
    \/ Select
    \/ Rename
    \/ TogglePublic
    \/ Delete

SpecStore == InitOfStore /\ [][NextStore]_vars

NextClient ==
    \/ signup
    \/ login
    \/ logout
    \/ create_project
    \/ list_projects
    \/ load_project
    \/ set_project_public
    \/ set_project_data
    \/ set_project_name
    \/ \E r \in 1..Len(reqs) : Complete(r)
    \/ \E r \in 1..Len(reqs) : logout_on_done(r)
    \/ \E r \in 1..Len(reqs) : loading_done(r)
    \/ \E r \in 1..Len(reqs) : match_response(r)
    \/ \E r \in 1..Len(reqs) : on_success(r)
    \/ \E r \in 1..Len(reqs) : on_error(r)

SpecClient == Init /\ [][NextClient]_vars

\* The transport delivers a completion for every request, and the thread of
\* a completion runs to the end of it.
SpecClientLive == Init /\ [][NextClient]_vars /\ WF_vars(Completion)

\* The queue with its producers and its consumer; the client is idle.
NextUi ==
    \/ update_project
    \/ show_toggle
    \/ show_window
    \/ try_iter_next
    \/ try_iter_end
    \/ click_row
    \/ click_create
    \/ click_import
    \/ click_rename
    \/ click_delete
    \/ click_public
    \/ show_ui_end

SpecUi == InitOfStore /\ [][NextUi]_vars

====
